---- MODULE Spec2Model ----
(***************************************************************************)
(* Model of the two-pane file manager (src/file_manager.py) and of the     *)
(* task tracker (src/app.py).                                              *)
(*                                                                         *)
(* A path is the sequence of its components below the filesystem root      *)
(* (Root == <<>>).  The filesystem is a function from the paths that exist *)
(* to "dir" or, for a regular file, to the file's content.  Symbolic links *)
(* and permission bits are not modelled: every existing directory can be   *)
(* listed and written.                                                     *)
(***************************************************************************)
EXTENDS Integers, Sequences, FiniteSets, TLC

(* ---- bounds ---- *)
MaxDepth == 3
MaxEvents == 3
MaxTasks == 3
MaxHeight == 6

(* ---- names, paths ---- *)
Names == {"a", "B", "c"}

Root == <<>>

\* str.lower() on the names of the model
lower(n) == CASE n = "B" -> "b" [] OTHER -> n

\* code-point order of the lower-cased names and of the raw names
StrRank(s) == CASE s = "B" -> 1 [] s = "a" -> 2 [] s = "b" -> 3 [] s = "c" -> 4 [] OTHER -> 0

\* Path.parent: the root is its own parent
Parent(p) == IF p = Root THEN Root ELSE SubSeq(p, 1, Len(p) - 1)

\* Path.name: the root's name is the empty string
Name(p) == IF p = Root THEN "" ELSE p[Len(p)]

\* Path.__truediv__ with a single name; joining "" gives the directory itself
Join(d, n) == IF n = "" THEN d ELSE Append(d, n)

IsPrefix(a, b) == Len(a) <= Len(b) /\ SubSeq(b, 1, Len(a)) = a

Rebase(q, from, to) == to \o SubSeq(q, Len(from) + 1, Len(q))

(* ---- filesystem queries ---- *)
Exists(fs, p) == p \in DOMAIN fs

IsDir(fs, p) == p \in DOMAIN fs /\ fs[p] = "dir"

IsFile(fs, p) == p \in DOMAIN fs /\ fs[p] # "dir"

Subtree(fs, p) == {q \in DOMAIN fs : IsPrefix(p, q)}

Children(fs, d) == {q \in DOMAIN fs : q # Root /\ Parent(q) = d}

Restrict(fs, S) == [q \in S |-> fs[q]]

\* a local binding: body(value), with value written once
Let(value, body(_)) == body(value)

Ok(fs) == [fs |-> fs, exc |-> "none"]

Raise(fs, e) == [fs |-> fs, exc |-> e]

(* ---- filesystem primitives used by the program ---- *)

\* shutil.rmtree(entry)
rmtree(fs, p) ==
    IF ~Exists(fs, p) THEN Raise(fs, "FileNotFoundError")
    ELSE IF ~IsDir(fs, p) THEN Raise(fs, "NotADirectoryError")
    ELSE Ok(Restrict(fs, DOMAIN fs \ Subtree(fs, p)))

\* a proper ancestor of p is a regular file: the OS refuses such a path with
\* ENOTDIR
UnderFile(fs, p) == \E i \in 1..(Len(p) - 1) : IsFile(fs, SubSeq(p, 1, i))

\* unlink with the bug of missing_ok=False: a missing path is an error
unlink_strict(fs, p) ==
    IF UnderFile(fs, p) THEN Raise(fs, "NotADirectoryError")
    ELSE IF ~Exists(fs, p) THEN Raise(fs, "FileNotFoundError")
    ELSE IF IsDir(fs, p) THEN Raise(fs, "IsADirectoryError")
    ELSE Ok(Restrict(fs, DOMAIN fs \ {p}))

\* Path.unlink(missing_ok=True): only the FileNotFoundError of a missing path
\* is suppressed
unlink(fs, p) ==
    IF UnderFile(fs, p) THEN Raise(fs, "NotADirectoryError")
    ELSE IF ~Exists(fs, p) THEN Ok(fs)
    ELSE IF IsDir(fs, p) THEN Raise(fs, "IsADirectoryError")
    ELSE Ok(Restrict(fs, DOMAIN fs \ {p}))

\* os.rename(src, dst), as used by Path.rename and by shutil.move
os_rename(fs, src, dst) ==
    IF ~Exists(fs, src) THEN Raise(fs, "FileNotFoundError")
    ELSE IF ~Exists(fs, Parent(dst)) THEN Raise(fs, "FileNotFoundError")
    ELSE IF ~IsDir(fs, Parent(dst)) THEN Raise(fs, "NotADirectoryError")
    ELSE IF src = dst THEN Ok(fs)
    ELSE IF IsDir(fs, src) /\ IsPrefix(src, dst) THEN Raise(fs, "OSError")
    ELSE IF IsDir(fs, src) /\ IsFile(fs, dst) THEN Raise(fs, "NotADirectoryError")
    ELSE IF IsFile(fs, src) /\ IsDir(fs, dst) THEN Raise(fs, "IsADirectoryError")
    ELSE IF IsDir(fs, dst) /\ Children(fs, dst) # {} THEN Raise(fs, "OSError")
    ELSE LET moved == Subtree(fs, src)
             kept  == DOMAIN fs \ (moved \cup Subtree(fs, dst))
             new   == {Rebase(q, src, dst) : q \in moved}
         IN  Ok([q \in kept \cup new |->
                   IF q \in new THEN fs[Rebase(q, dst, src)] ELSE fs[q]])

\* mkdir with the bug of parents=True: a missing parent is created too
mkdir_parents(fs, p) ==
    IF Exists(fs, p) THEN Raise(fs, "FileExistsError")
    ELSE IF ~Exists(fs, Parent(p)) THEN Ok(fs @@ (Parent(p) :> "dir") @@ (p :> "dir"))
    ELSE IF ~IsDir(fs, Parent(p)) THEN Raise(fs, "NotADirectoryError")
    ELSE Ok(fs @@ (p :> "dir"))

\* Path.mkdir(parents=False, exist_ok=False)
mkdir(fs, p) ==
    IF Exists(fs, p) THEN Raise(fs, "FileExistsError")
    ELSE IF ~Exists(fs, Parent(p)) THEN Raise(fs, "FileNotFoundError")
    ELSE IF ~IsDir(fs, Parent(p)) THEN Raise(fs, "NotADirectoryError")
    ELSE Ok(fs @@ (p :> "dir"))

\* os.makedirs(dst) inside shutil.copytree: missing ancestors are created too
RECURSIVE makedirs(_, _)
makedirs(fs, p) ==
    IF Exists(fs, p) THEN Raise(fs, "FileExistsError")
    ELSE IF Len(p) > MaxDepth THEN Raise(fs, "RecursionError")
    ELSE IF IsFile(fs, Parent(p)) THEN Raise(fs, "NotADirectoryError")
    ELSE IF IsDir(fs, Parent(p)) THEN Ok(fs @@ (p :> "dir"))
    ELSE Let(makedirs(fs, Parent(p)),
             LAMBDA up : IF up.exc # "none" THEN up ELSE Ok(up.fs @@ (p :> "dir")))

\* shutil.copy2(src, dst) for a regular file
copy2(fs, src, dst) ==
    IF ~Exists(fs, src) THEN Raise(fs, "FileNotFoundError")
    ELSE IF IsDir(fs, src) THEN Raise(fs, "IsADirectoryError")
    ELSE IF ~Exists(fs, Parent(dst)) THEN Raise(fs, "FileNotFoundError")
    ELSE IF ~IsDir(fs, Parent(dst)) THEN Raise(fs, "NotADirectoryError")
    ELSE IF Len(dst) > MaxDepth THEN Raise(fs, "RecursionError")
    ELSE Ok([q \in DOMAIN fs \cup {dst} |-> IF q = dst THEN fs[src] ELSE fs[q]])

\* shutil.copytree(src, dst).  The children of src are listed before dst is
\* created and are then copied one after the other, in scandir order (order),
\* each step seeing what the previous ones wrote.  When dst lies inside src
\* the copy descends into its own output without end; the recursion is cut
\* where a path would grow beyond MaxDepth and the error aborts the copy.
RECURSIVE copytree(_, _, _, _)
RECURSIVE copy_entries(_, _, _, _, _)
copytree(fs, src, dst, order) ==
    IF ~Exists(fs, src) THEN Raise(fs, "FileNotFoundError")
    ELSE IF ~IsDir(fs, src) THEN Raise(fs, "NotADirectoryError")
    ELSE Let(makedirs(fs, dst),
             LAMBDA made :
                 IF made.exc # "none" THEN made
                 ELSE copy_entries(made.fs, src, dst,
                          SelectSeq(order, LAMBDA n : Exists(fs, Append(src, n))), order))

copy_entries(fs, src, dst, entries, order) ==
    IF entries = <<>> THEN Ok(fs)
    ELSE Let(IF IsDir(fs, Append(src, Head(entries)))
             THEN copytree(fs, Append(src, Head(entries)), Append(dst, Head(entries)), order)
             ELSE copy2(fs, Append(src, Head(entries)), Append(dst, Head(entries))),
             LAMBDA r :
                 IF r.exc # "none" THEN r
                 ELSE copy_entries(r.fs, src, dst, Tail(entries), order))

\* shutil_move with the bug of leaving the source in place (a copy)
shutil_move_keeps_source(fs, src, dst, order) ==
    IF IsDir(fs, src) THEN copytree(fs, src, dst, order) ELSE copy2(fs, src, dst)

\* shutil.move(src, dst) where dst does not exist: os.rename, and when that
\* fails, copy followed by removal of the source
shutil_move(fs, src, dst, order) ==
    Let(os_rename(fs, src, dst),
        LAMBDA r :
            IF r.exc = "none" THEN r
            ELSE IF IsDir(fs, src) THEN
                IF IsPrefix(src, dst) THEN Raise(fs, "Error")
                ELSE Let(copytree(fs, src, dst, order),
                         LAMBDA c : IF c.exc # "none" THEN c ELSE rmtree(c.fs, src))
            ELSE Let(copy2(fs, src, dst),
                     LAMBDA c : IF c.exc # "none" THEN c ELSE unlink(c.fs, src)))

\* copy_or_move with the bug of testing dst.is_dir() in place of dst.exists()
copy_or_move_dir_test(fs, src, dst_dir, move, order) ==
    Let(Join(dst_dir, Name(src)),
        LAMBDA dst :
            Let(IF IsDir(fs, dst) THEN Raise(fs, "FileExistsError")
                ELSE IF move THEN shutil_move(fs, src, dst, order)
                ELSE IF IsDir(fs, src) THEN copytree(fs, src, dst, order)
                ELSE copy2(fs, src, dst),
                LAMBDA r : [fs |-> r.fs, exc |-> r.exc, ret |-> dst]))

\* copy_or_move with the bug of not testing dst.exists()
copy_or_move_overwrite(fs, src, dst_dir, move, order) ==
    Let(Join(dst_dir, Name(src)),
        LAMBDA dst :
            Let(IF move THEN shutil_move(fs, src, dst, order)
                ELSE IF IsDir(fs, src) THEN copytree(fs, src, dst, order)
                ELSE copy2(fs, src, dst),
                LAMBDA r : [fs |-> r.fs, exc |-> r.exc, ret |-> dst]))

\* copy_or_move(src, dst_dir, move): the resulting filesystem, the exception
\* raised ("none" when it returns) and the returned path
copy_or_move(fs, src, dst_dir, move, order) ==
    Let(Join(dst_dir, Name(src)),
        LAMBDA dst :
            Let(IF Exists(fs, dst) THEN Raise(fs, "FileExistsError")
                ELSE IF move THEN shutil_move(fs, src, dst, order)
                ELSE IF IsDir(fs, src) THEN copytree(fs, src, dst, order)
                ELSE copy2(fs, src, dst),
                LAMBDA r : [fs |-> r.fs, exc |-> r.exc, ret |-> dst]))

(* ---- PaneState ---- *)

\* Path.expanduser().resolve(): the paths of the model are absolute, hold no
\* "~", "." or ".." component and no symbolic link, so they are canonical
resolve(p) == p

\* KeyLess with the bug of comparing the names as they are: (p.is_file(), p.name)
KeyLessCaseSensitive(fs, p, q) ==
    \/ ~IsFile(fs, p) /\ IsFile(fs, q)
    \/ /\ IsFile(fs, p) = IsFile(fs, q)
       /\ StrRank(Name(p)) < StrRank(Name(q))

\* the sort key of PaneState.refresh: (p.is_file(), p.name.lower())
KeyLess(fs, p, q) ==
    \/ ~IsFile(fs, p) /\ IsFile(fs, q)
    \/ /\ IsFile(fs, p) = IsFile(fs, q)
       /\ StrRank(lower(Name(p))) < StrRank(lower(Name(q)))

\* one step of the stable sort: x goes after every element whose key is not
\* greater than its own
SortedInsert(fs, acc, x) ==
    LET k == Cardinality({i \in 1..Len(acc) : ~KeyLess(fs, x, acc[i])})
    IN  SubSeq(acc, 1, k) \o <<x>> \o SubSeq(acc, k + 1, Len(acc))

\* sorted(items, key=...)
RECURSIVE sorted(_, _)
sorted(fs, items) ==
    IF items = <<>> THEN <<>>
    ELSE SortedInsert(fs, sorted(fs, SubSeq(items, 1, Len(items) - 1)),
                      items[Len(items)])

\* list(path.iterdir()): the children of d in the order the OS yields them
iterdir(fs, d, order) ==
    LET present == SelectSeq(order, LAMBDA n : Exists(fs, Append(d, n)))
    IN  [i \in 1..Len(present) |-> Append(d, present[i])]

\* Max with the bug of returning its second argument
MaxTakesSecond(a, b) == b

Max(a, b) == IF a >= b THEN a ELSE b

Min(a, b) == IF a <= b THEN a ELSE b

\* PaneRefresh with the bug of leaving the cursor where it was
PaneRefreshNoClamp(pane, fs, order) ==
    IF ~Exists(fs, resolve(pane.path))
    THEN [pane |-> pane, exc |-> "FileNotFoundError"]
    ELSE IF ~IsDir(fs, resolve(pane.path))
    THEN [pane |-> pane, exc |-> "NotADirectoryError"]
    ELSE [pane |-> [pane EXCEPT !.entries = <<Parent(resolve(pane.path))>>
                                     \o sorted(fs, iterdir(fs, resolve(pane.path), order))],
          exc  |-> "none"]

\* PaneState.refresh: the refreshed pane and the exception iterdir raised
PaneRefresh(pane, fs, order) ==
    LET path == resolve(pane.path)
    IN  IF ~Exists(fs, path)
        THEN [pane |-> [pane EXCEPT !.path = path], exc |-> "FileNotFoundError"]
        ELSE IF ~IsDir(fs, path)
        THEN [pane |-> [pane EXCEPT !.path = path], exc |-> "NotADirectoryError"]
        ELSE Let(<<Parent(path)>> \o sorted(fs, iterdir(fs, path, order)),
                 LAMBDA entries :
                     [pane |-> [path    |-> path,
                                cursor  |-> IF pane.cursor >= Len(entries)
                                            THEN Max(0, Len(entries) - 1) ELSE pane.cursor,
                                entries |-> entries],
                      exc  |-> "none"])

\* PaneState.selected
selected(pane) ==
    IF pane.entries = <<>> THEN pane.path ELSE pane.entries[pane.cursor + 1]

(* ---- Entry formatter ---- *)

\* len of a file's content
Size(content) == CASE content = "hello" -> 5 [] content = "x" -> 1 [] OTHER -> 0

\* format_entry: the sequence of the fields of the line, <<"[..]">> alone for
\* the parent marker
format_entry(fs, path) ==
    IF path = Parent(path) THEN <<"[..]">>
    ELSE LET name == <<Name(path)>> \o (IF IsDir(fs, path) THEN <<"/">> ELSE <<>>)
         IN  IF ~Exists(fs, path) THEN <<"??????????", "?", "?">> \o name
             ELSE IF IsDir(fs, path) THEN <<"d", "<DIR>", "mtime">> \o name
             ELSE <<"-", ToString(Size(fs[path])), "mtime">> \o name

(* ---- FileManager ---- *)

VARIABLES
    fs,        \* the filesystem: existing path -> "dir" or file content
    panes,     \* FileManager.panes: 0..1 -> [path, cursor, entries]
    active,    \* FileManager.active
    status,    \* FileManager.status: <<kind, detail...>>
    pc,        \* position of run: "init", "loop" (at getch), "done", "crashed"
    key,       \* the key read by the last getch
    exc,       \* the exception caught while handling key, or "none"
    nevents,   \* number of keys read so far
    tasks      \* app.py: the task list of the tracker (what the JSON file holds)

vars == <<fs, panes, active, status, pc, key, exc, nevents, tasks>>

\* other_index with the bug of always naming pane 0
other_index_zero(act) == 0

\* FileManager.other_index
other_index(act) == 1 - act

\* the text a prompt can read: a sequence of name, " " and "/" tokens
PromptTexts ==
    {<<>>, <<" ">>, <<"a">>, <<" ", "B", " ">>, <<"c">>, <<"B", "/", "c">>}

\* str.strip() at the end of FileManager.prompt
RECURSIVE strip(_)
strip(t) ==
    IF t = <<>> THEN t
    ELSE IF Head(t) = " " THEN strip(Tail(t))
    ELSE IF t[Len(t)] = " " THEN strip(SubSeq(t, 1, Len(t) - 1))
    ELSE t

\* the path components a stripped text names
Components(t) == SelectSeq(t, LAMBDA x : x # "/")

\* the orders in which the OS can enumerate a directory
Orders ==
    {<<"a", "B", "c">>, <<"a", "c", "B">>, <<"B", "a", "c">>,
     <<"B", "c", "a">>, <<"c", "a", "B">>, <<"c", "B", "a">>}

\* FileManager.refresh: pane 0, then pane 1; the first exception ends it
ManagerRefresh(ps, f, order) ==
    Let(PaneRefresh(ps[0], f, order),
        LAMBDA r0 :
            IF r0.exc # "none" THEN [panes |-> [ps EXCEPT ![0] = r0.pane], exc |-> r0.exc]
            ELSE Let(PaneRefresh(ps[1], f, order),
                     LAMBDA r1 : [panes |-> [ps EXCEPT ![0] = r0.pane, ![1] = r1.pane],
                                  exc   |-> r1.exc]))

\* The handlers take and return m = [fs, panes, active, status] together with
\* the exception they raise.
Done(m) == [m |-> m, exc |-> "none"]

\* open_entry with the bug of not resetting the cursor
open_entry_keeps_cursor(m, entry, openerOk) ==
    IF IsDir(m.fs, entry)
    THEN Done([m EXCEPT !.panes[m.active].path = resolve(entry)])
    ELSE IF openerOk THEN Done([m EXCEPT !.status = <<"opening", Name(entry)>>])
    ELSE Done([m EXCEPT !.status = <<"open failed">>])

\* FileManager.open_entry; openerOk: whether subprocess.Popen succeeds
open_entry(m, entry, openerOk) ==
    IF IsDir(m.fs, entry)
    THEN Done([m EXCEPT !.panes[m.active].path = resolve(entry),
                        !.panes[m.active].cursor = 0])
    ELSE IF openerOk THEN Done([m EXCEPT !.status = <<"opening", Name(entry)>>])
    ELSE Done([m EXCEPT !.status = <<"open failed">>])

\* FileManager.delete_entry
delete_entry(m, entry) ==
    IF entry = Parent(entry) THEN Done([m EXCEPT !.status = <<"cannot delete parent link">>])
    ELSE Let(IF IsDir(m.fs, entry) THEN rmtree(m.fs, entry) ELSE unlink(m.fs, entry),
             LAMBDA r :
                 IF r.exc # "none" THEN [m |-> [m EXCEPT !.fs = r.fs], exc |-> r.exc]
                 ELSE Done([m EXCEPT !.fs = r.fs, !.status = <<"deleted", Name(entry)>>]))

\* FileManager.rename_entry; text: what the prompt reads
rename_entry(m, entry, text) ==
    IF entry = Parent(entry) THEN Done([m EXCEPT !.status = <<"nothing to rename">>])
    ELSE Let(strip(text),
             LAMBDA new_name :
                 IF new_name = <<>> THEN Done([m EXCEPT !.status = <<"rename cancelled">>])
                 ELSE IF Len(new_name) # 1 THEN [m |-> m, exc |-> "ValueError"]
                 ELSE Let(os_rename(m.fs, entry, Append(Parent(entry), new_name[1])),
                          LAMBDA r :
                              IF r.exc # "none" THEN [m |-> m, exc |-> r.exc]
                              ELSE Done([m EXCEPT !.fs = r.fs,
                                                  !.status = <<"renamed to">> \o new_name])))

\* make_dir with the bug of not testing the name: an empty name goes to mkdir
make_dir_no_cancel(m, text) ==
    Let(strip(text),
        LAMBDA name :
            Let(mkdir(m.fs, m.panes[m.active].path \o Components(name)),
                LAMBDA r :
                    IF r.exc # "none" THEN [m |-> m, exc |-> r.exc]
                    ELSE Done([m EXCEPT !.fs = r.fs, !.status = <<"created">> \o name])))

\* FileManager.make_dir; text: what the prompt reads
make_dir(m, text) ==
    Let(strip(text),
        LAMBDA name :
            IF name = <<>> THEN Done([m EXCEPT !.status = <<"mkdir cancelled">>])
            ELSE Let(mkdir(m.fs, m.panes[m.active].path \o Components(name)),
                     LAMBDA r :
                         IF r.exc # "none" THEN [m |-> m, exc |-> r.exc]
                         ELSE Done([m EXCEPT !.fs = r.fs, !.status = <<"created">> \o name])))

\* the copy (move = FALSE) and move (move = TRUE) branches of run
copy_branch(m, entry, move, order) ==
    Let(copy_or_move(m.fs, entry, m.panes[other_index(m.active)].path, move, order),
        LAMBDA r :
            IF r.exc # "none" THEN [m |-> [m EXCEPT !.fs = r.fs], exc |-> r.exc]
            ELSE Done([m EXCEPT !.fs = r.fs,
                                !.status = <<IF move THEN "moved" ELSE "copied", Name(r.ret)>>]))

\* the "r" branch of run
refresh_branch(m, order) ==
    Let(ManagerRefresh(m.panes, m.fs, order),
        LAMBDA r :
            IF r.exc # "none" THEN [m |-> [m EXCEPT !.panes = r.panes], exc |-> r.exc]
            ELSE Done([m EXCEPT !.panes = r.panes, !.status = <<"refreshed">>]))

\* Dispatch with the bug of binding the "r" key to delete_entry
DispatchRemoves(m, k, text, openerOk, order) ==
    LET pane  == m.panes[m.active]
        entry == selected(m.panes[m.active])
    IN  CASE k = "Tab"   -> Done([m EXCEPT !.active = other_index(m.active)])
          [] k = "Up"    -> Done([m EXCEPT !.panes[m.active].cursor = Max(0, pane.cursor - 1)])
          [] k = "Down"  -> Done([m EXCEPT !.panes[m.active].cursor =
                                      Min(Len(pane.entries) - 1, pane.cursor + 1)])
          [] k = "Enter" -> open_entry(m, entry, openerOk)
          [] k = "F5"    -> copy_branch(m, entry, FALSE, order)
          [] k = "F6"    -> copy_branch(m, entry, TRUE, order)
          [] k = "F8"    -> delete_entry(m, entry)
          [] k = "F7"    -> make_dir(m, text)
          [] k = "F2"    -> rename_entry(m, entry, text)
          [] k = "r"     -> delete_entry(m, entry)
          [] OTHER       -> Done(m)

\* the body of the try statement of run, for every key but the quit key
Dispatch(m, k, text, openerOk, order) ==
    LET pane  == m.panes[m.active]
        entry == selected(m.panes[m.active])
    IN  CASE k = "Tab"   -> Done([m EXCEPT !.active = other_index(m.active)])
          [] k = "Up"    -> Done([m EXCEPT !.panes[m.active].cursor = Max(0, pane.cursor - 1)])
          [] k = "Down"  -> Done([m EXCEPT !.panes[m.active].cursor =
                                      Min(Len(pane.entries) - 1, pane.cursor + 1)])
          [] k = "Enter" -> open_entry(m, entry, openerOk)
          [] k = "F5"    -> copy_branch(m, entry, FALSE, order)
          [] k = "F6"    -> copy_branch(m, entry, TRUE, order)
          [] k = "F8"    -> delete_entry(m, entry)
          [] k = "F7"    -> make_dir(m, text)
          [] k = "F2"    -> rename_entry(m, entry, text)
          [] k = "r"     -> refresh_branch(m, order)
          [] OTHER       -> Done(m)

\* Catch with the bug of swallowing the exception without a message
CatchKeepsStatus(h) == h.m

\* the except clause of run: the exception becomes the status
Catch(h) ==
    IF h.exc = "none" THEN h.m ELSE [h.m EXCEPT !.status = <<"error", h.exc>>]

\* Iteration with the bug of not refreshing the panes after the event
IterationNoRefresh(m, k, text, openerOk, order) ==
    Let(Dispatch(m, k, text, openerOk, order),
        LAMBDA h : [m |-> Catch(h), caught |-> h.exc, pc |-> "loop"])

\* one iteration of the loop of run after getch returned k (not the quit
\* key): try body, except clause, then self.refresh() outside the try
Iteration(m, k, text, openerOk, order) ==
    Let(Dispatch(m, k, text, openerOk, order),
        LAMBDA h :
            Let(Catch(h),
                LAMBDA c :
                    Let(ManagerRefresh(c.panes, c.fs, order),
                        LAMBDA r :
                            [m      |-> [c EXCEPT !.panes = r.panes],
                             caught |-> h.exc,
                             pc     |-> IF r.exc = "none" THEN "loop" ELSE "crashed"])))

(* ---- the state machine ---- *)

\* the disk the program is started on
InitFs ==
    (Root :> "dir")
    @@ (<<"a">> :> "dir") @@ (<<"a", "a">> :> "hello") @@ (<<"a", "B">> :> "x")
    @@ (<<"a", "c">> :> "dir") @@ (<<"a", "c", "B">> :> "x")
    @@ (<<"B">> :> "dir") @@ (<<"B", "a">> :> "x")

\* FileManager.__init__(Path.cwd(), Path.home()): two existing directories
Init ==
    /\ fs = InitFs
    /\ \E left, right \in {d \in DOMAIN InitFs : InitFs[d] = "dir"} :
          panes = [i \in {0, 1} |->
                     [path |-> IF i = 0 THEN left ELSE right, cursor |-> 0, entries |-> <<>>]]
    /\ active = 0
    /\ status = <<"help">>
    /\ pc = "init"
    /\ key = "none"
    /\ exc = "none"
    /\ nevents = 0
    /\ tasks = <<>>

\* run, up to the loop: self.refresh()
RunStart ==
    /\ pc = "init"
    /\ \E order \in Orders :
          \E r \in {ManagerRefresh(panes, fs, order)} :
              /\ panes' = r.panes
              /\ pc' = IF r.exc = "none" THEN "loop" ELSE "crashed"
    /\ UNCHANGED <<fs, active, status, key, exc, nevents, tasks>>

\* what an event may create stays within MaxDepth, except for the copy of a
\* directory to a place below one of its own children, which has no end of
\* its own (a move into itself is refused and creates nothing)
FitsDepth(f, src, dst) == \A q \in Subtree(f, src) : Len(Rebase(q, src, dst)) <= MaxDepth

WithinBounds(m, k, text) ==
    LET entry == selected(m.panes[m.active])
        dst   == Join(m.panes[other_index(m.active)].path, Name(entry))
    IN  CASE k \in {"F5", "F6"} ->
                \/ Exists(m.fs, dst)
                \/ k = "F6" /\ IsPrefix(entry, dst)
                \/ k = "F5" /\ IsPrefix(entry, Parent(dst)) /\ entry # Parent(dst)
                \/ FitsDepth(m.fs, entry, dst)
          [] k = "F7" ->
                \/ Len(m.panes[m.active].path \o Components(strip(text))) <= MaxDepth
                \/ mkdir(m.fs, m.panes[m.active].path \o Components(strip(text))).exc # "none"
          [] OTHER -> TRUE

\* one iteration of the loop for a key other than the quit key; order: the
\* order in which the OS enumerates directories during this iteration
Step(k, text, openerOk, order) ==
    /\ pc = "loop"
    /\ nevents < MaxEvents
    /\ \E m \in {[fs |-> fs, panes |-> panes, active |-> active, status |-> status]} :
       \E it \in {Iteration(m, k, text, openerOk, order)} :
           /\ WithinBounds(m, k, text)
           /\ fs' = it.m.fs
           /\ panes' = it.m.panes
           /\ active' = it.m.active
           /\ status' = it.m.status
           /\ exc' = it.caught
           /\ pc' = it.pc
    /\ key' = k
    /\ nevents' = nevents + 1
    /\ UNCHANGED tasks

Quit ==
    /\ pc = "loop"
    /\ pc' = "done"
    /\ key' = "q"
    /\ exc' = "none"
    /\ UNCHANGED <<fs, panes, active, status, nevents, tasks>>

\* The enumeration order matters to the copy of a directory into itself only:
\* refresh sorts what iterdir yields, and no two names of Names have the same
\* lower-case form (OrderIrrelevant).  The other events use one order.
ListingOrder == <<"B", "a", "c">>

SwitchPane == Step("Tab", <<>>, TRUE, ListingOrder)

CursorUp == Step("Up", <<>>, TRUE, ListingOrder)

CursorDown == Step("Down", <<>>, TRUE, ListingOrder)

Open == \E openerOk \in BOOLEAN : Step("Enter", <<>>, openerOk, ListingOrder)

Copy == \E order \in Orders : Step("F5", <<>>, TRUE, order)

Move == \E order \in Orders : Step("F6", <<>>, TRUE, order)

Delete == Step("F8", <<>>, TRUE, ListingOrder)

MakeDir == \E text \in PromptTexts : Step("F7", text, TRUE, ListingOrder)

Rename == \E text \in PromptTexts : Step("F2", text, TRUE, ListingOrder)

Refresh == Step("r", <<>>, TRUE, ListingOrder)

OtherKey == Step("other", <<>>, TRUE, ListingOrder)

Next ==
    \/ RunStart
    \/ Quit
    \/ SwitchPane
    \/ CursorUp
    \/ CursorDown
    \/ Open
    \/ Copy
    \/ Move
    \/ Delete
    \/ MakeDir
    \/ Rename
    \/ Refresh
    \/ OtherKey

Spec == Init /\ [][Next]_vars

\* every enumeration order gives the same refreshed panes
OrderIrrelevant ==
    \A o \in Orders : ManagerRefresh(panes, fs, o) = ManagerRefresh(panes, fs, ListingOrder)

TypeOK ==
    /\ Root \in DOMAIN fs
    /\ \A p \in DOMAIN fs : p = Root \/ IsDir(fs, Parent(p))
    /\ active \in {0, 1}
    /\ pc \in {"init", "loop", "done", "crashed"}
    /\ nevents \in 0..MaxEvents

(* ---- definitions shared by the properties ---- *)

\* what the handler of the next key acts on, in the state where the key is read
Selected == selected(panes[active])

OtherDir == panes[other_index(active)].path

CopyTarget == Join(OtherDir, Name(Selected))

\* a filesystem with the subtree of src also present at dst
WithCopy(f, src, dst) ==
    [q \in DOMAIN f \cup {Rebase(x, src, dst) : x \in Subtree(f, src)} |->
        IF IsPrefix(dst, q) THEN f[Rebase(q, dst, src)] ELSE f[q]]

(* ---- C1 ---- *)

\* C1: whenever the handler of an event raised, the exception was caught, the
\* status is the error message made from it and the loop is back at getch.
C1_ErrorContained ==
    exc # "none" => (status = <<"error", exc>> /\ pc = "loop")

\* a copy onto an existing target raised and was contained
W_C1_CopyRaised ==
    key = "F5" /\ exc = "FileExistsError" /\ status = <<"error", "FileExistsError">> /\ pc = "loop"

(* ---- C2 ---- *)

\* C2: no sequence of events aborts the loop; run never ends by an exception.
C2_LoopNeverAborts == pc # "crashed"

(* ---- C3 ---- *)

\* C3: a delete event with the cursor on the parent sentinel (entries[0])
\* leaves the filesystem unchanged.
C3_DeleteSentinelNoOp ==
    [][(pc = "loop" /\ key' = "F8" /\ panes[active].cursor = 0) => fs' = fs]_vars

(* ---- C4 ---- *)

\* C4: for every src, dst_dir and move, when dst_dir/src.name exists,
\* copy_or_move raises FileExistsError and leaves the filesystem as it was.
C4_ExistingTargetRefused ==
    \A src \in DOMAIN fs \cup {<<"c", "c">>}, dst_dir \in DOMAIN fs, move \in BOOLEAN :
        Exists(fs, Join(dst_dir, Name(src))) =>
            \A order \in Orders :
                Let(copy_or_move(fs, src, dst_dir, move, order),
                    LAMBDA r : r.exc = "FileExistsError" /\ r.fs = fs)

\* a move onto an existing target was refused by the program
W_C4_MoveRefused ==
    key = "F6" /\ exc = "FileExistsError" /\ pc = "loop" /\ fs = InitFs

(* ---- C5 ---- *)

\* the effect C5 states for a copy or move event handled from this state
CopyMoveDone ==
    /\ exc' = "none"
    /\ key' = "F5" =>
          /\ status' = <<"copied", Name(CopyTarget)>>
          /\ fs' = WithCopy(fs, Selected, CopyTarget)
    /\ key' = "F6" =>
          /\ status' = <<"moved", Name(CopyTarget)>>
          /\ fs' = Restrict(WithCopy(fs, Selected, CopyTarget),
                            DOMAIN WithCopy(fs, Selected, CopyTarget) \ Subtree(fs, Selected))

\* C5 as stated: whenever src exists and dst_dir/src.name does not, the copy
\* (move) succeeds: the subtree of src is at the target, and src is unchanged
\* (gone).
C5_CopyMoveAlwaysSucceeds ==
    [][(pc = "loop" /\ key' \in {"F5", "F6"} /\ Exists(fs, Selected)
          /\ ~Exists(fs, CopyTarget)) => CopyMoveDone]_vars

\* C5 amended: the same, for a dst_dir that is an existing directory and is
\* neither src nor inside src.
C5_CopyMoveOutsideSource ==
    [][(pc = "loop" /\ key' \in {"F5", "F6"} /\ Exists(fs, Selected)
          /\ ~Exists(fs, CopyTarget) /\ IsDir(fs, OtherDir)
          /\ ~IsPrefix(Selected, OtherDir)) => CopyMoveDone]_vars

\* a directory with its content was moved to the other pane's directory
W_C5_TreeMoved ==
    /\ key = "F6" /\ status = <<"moved", "c">>
    /\ ~Exists(fs, <<"a", "c">>)
    /\ Exists(fs, <<"B", "c", "B">>) /\ fs[<<"B", "c", "B">>] = "x"

(* ---- C6 ---- *)

\* entries e1 then e2 respect the listing order: no file before a directory,
\* and within a class the lower-cased names ascend
InListingOrder(e1, e2) ==
    /\ ~(IsFile(fs, e1) /\ IsDir(fs, e2))
    /\ (IsFile(fs, e1) = IsFile(fs, e2)) =>
          StrRank(lower(Name(e1))) =< StrRank(lower(Name(e2)))

\* C6: a refreshed pane lists the parent sentinel first (the directory itself
\* at the root), then exactly the children of its directory, directories
\* before files and each class by lower-cased name.
C6_ListingOrdered ==
    pc = "loop" =>
        \A i \in {0, 1} :
            LET e == panes[i].entries
            IN  /\ Len(e) = 1 + Cardinality(Children(fs, panes[i].path))
                /\ e[1] = (IF panes[i].path = Root THEN Root ELSE Parent(panes[i].path))
                /\ {e[j] : j \in 2..Len(e)} = Children(fs, panes[i].path)
                /\ \A j, k \in 2..Len(e) : j < k => InListingOrder(e[j], e[k])

\* a pane lists a directory holding a directory and two files
W_C6_MixedListing ==
    /\ pc = "loop"
    /\ \E i \in {0, 1} :
          /\ Len(panes[i].entries) >= 4
          /\ \E j, k \in 2..Len(panes[i].entries) :
                IsDir(fs, panes[i].entries[j]) /\ IsFile(fs, panes[i].entries[k])

(* ---- C7 ---- *)

\* C7: after the initial refresh the cursor of both panes is an index of
\* entries, and a pane that stays in its directory with a cursor beyond the
\* new listing gets the last index.
C7_CursorInRange ==
    [][pc' # "init" =>
         \A i \in {0, 1} :
            /\ panes'[i].cursor \in 0..(Len(panes'[i].entries) - 1)
            /\ (pc' = "loop" /\ panes'[i].path = panes[i].path
                  /\ panes[i].cursor >= Len(panes'[i].entries))
               => panes'[i].cursor = Len(panes'[i].entries) - 1]_vars

\* the only child of /B, the file a, was deleted under the cursor: the
\* sentinel alone is left and the cursor, which was 1, is on it
W_C7_Clamped ==
    /\ key = "F8" /\ status = <<"deleted", "a">> /\ pc = "loop"
    /\ panes[active].path = <<"B">>
    /\ Len(panes[active].entries) = 1
    /\ panes[active].cursor = 0

(* ---- C8 ---- *)

\* C8: whenever the loop waits for a key, both panes list what is on disk in
\* their directory: the sentinel, then exactly the children.
C8_PanesReflectDisk ==
    pc = "loop" =>
        \A i \in {0, 1} :
            /\ IsDir(fs, panes[i].path)
            /\ panes[i].entries[1] = Parent(panes[i].path)
            /\ {panes[i].entries[j] : j \in 2..Len(panes[i].entries)}
                  = Children(fs, panes[i].path)
            /\ Len(panes[i].entries) = 1 + Cardinality(Children(fs, panes[i].path))

\* a copy made from the active pane shows up in the other pane
W_C8_OtherPaneRelisted ==
    /\ key = "F5" /\ status[1] = "copied" /\ pc = "loop"
    /\ \E j \in 2..Len(panes[other_index(active)].entries) :
          /\ Name(panes[other_index(active)].entries[j]) = status[2]
          /\ panes[other_index(active)].entries[j] \notin DOMAIN InitFs

(* ---- C9 ---- *)

\* C9: formatting the parent sentinel of a pane gives the parent marker.
C9_SentinelMarker ==
    pc = "loop" =>
        \A i \in {0, 1} : format_entry(fs, panes[i].entries[1]) = <<"[..]">>

(* ---- C10 ---- *)

\* C10: a rename event with the cursor on the parent sentinel leaves the
\* filesystem unchanged, whatever is typed.
C10_RenameSentinelNoOp ==
    [][(pc = "loop" /\ key' = "F2" /\ panes[active].cursor = 0) => fs' = fs]_vars

(* ---- C11 ---- *)

\* the state of the FileManager as the handlers take it
Current == [fs |-> fs, panes |-> panes, active |-> active, status |-> status]

\* the typed texts that the prompt returns as the empty string
BlankTexts == {t \in PromptTexts : \A i \in DOMAIN t : t[i] = " "}

\* C11: in every state where the loop waits for a key, a make-directory event
\* whose prompt returns an empty or whitespace-only text, and a rename event
\* that prompts (the selected entry is not its own parent) and gets such a
\* text, raise nothing, leave the filesystem as it is and set the status to
\* the cancellation message of the event.
C11_BlankPromptCancels ==
    pc = "loop" =>
        \A text \in BlankTexts :
            /\ Let(Iteration(Current, "F7", text, TRUE, ListingOrder),
                   LAMBDA it : /\ it.m.fs = fs
                               /\ it.caught = "none"
                               /\ it.m.status = <<"mkdir cancelled">>)
            /\ Selected # Parent(Selected) =>
                  Let(Iteration(Current, "F2", text, TRUE, ListingOrder),
                      LAMBDA it : /\ it.m.fs = fs
                                  /\ it.caught = "none"
                                  /\ it.m.status = <<"rename cancelled">>)

\* a make-directory event was cancelled by a blank text
W_C11_Cancelled ==
    /\ key = "F7" /\ status = <<"mkdir cancelled">> /\ exc = "none" /\ pc = "loop"
    /\ fs = InitFs

(* ---- C12 ---- *)

\* C12: an Enter event on a selected entry that is a directory (the parent
\* sentinel included) makes that directory the active pane's path and sets
\* its cursor to 0; the other pane's path and cursor, the active index and
\* the filesystem stay as they were; in a pane showing the filesystem root,
\* Enter on the sentinel leaves the path at the root.
C12_OpenDirectory ==
    [][(pc = "loop" /\ key' = "Enter" /\ IsDir(fs, Selected)) =>
          /\ panes'[active].path = Selected
          /\ panes'[active].cursor = 0
          /\ panes'[other_index(active)].path = panes[other_index(active)].path
          /\ panes'[other_index(active)].cursor = panes[other_index(active)].cursor
          /\ active' = active
          /\ fs' = fs
          /\ (panes[active].path = Root /\ panes[active].cursor = 0)
                => panes'[active].path = Root]_vars

\* the directory c of /a was opened: cursor moved down to it, then Enter
W_C12_Opened ==
    /\ key = "Enter" /\ nevents = 2 /\ status = <<"help">> /\ pc = "loop"
    /\ panes[active].path = <<"a", "c">>
    /\ panes[active].cursor = 0
    /\ panes[active].entries[1] = <<"a">>

(* ---- C13 ---- *)

\* C13: a Down event moves the active pane's cursor one entry down and an Up
\* event one entry up, neither beyond the listing: Down on the last index and
\* Up on index 0 leave the cursor where it is.
C13_CursorMoves ==
    [][pc = "loop" =>
          /\ key' = "Down" =>
                panes'[active].cursor =
                    (IF panes[active].cursor + 1 <= Len(panes[active].entries) - 1
                     THEN panes[active].cursor + 1
                     ELSE Len(panes[active].entries) - 1)
          /\ key' = "Up" =>
                panes'[active].cursor =
                    (IF panes[active].cursor - 1 >= 0 THEN panes[active].cursor - 1 ELSE 0)
          /\ (key' = "Down" /\ panes[active].cursor = Len(panes[active].entries) - 1)
                => panes'[active].cursor = panes[active].cursor
          /\ (key' = "Up" /\ panes[active].cursor = 0) => panes'[active].cursor = 0]_vars

\* the first key was Up, with the cursor on index 0: it is still there
W_C13_UpAtTop ==
    key = "Up" /\ nevents = 1 /\ panes[active].cursor = 0 /\ pc = "loop"

(* ---- C14 ---- *)

\* the directory a make-directory event with this text is about
MkdirTarget(text) == panes[active].path \o Components(strip(text))

\* C14: in every state where the loop waits for a key, a make-directory event
\* with a non-empty name either creates its target, one new directory, and
\* changes nothing else on disk, or fails and changes nothing; it creates
\* when the target is missing and its parent is a directory, fails with
\* FileExistsError when the target exists, and fails, creating no
\* intermediate directory, when the target's parent does not exist.
C14_MkdirOneLevel ==
    pc = "loop" =>
        \A text \in PromptTexts \ BlankTexts :
            Let(Iteration(Current, "F7", text, TRUE, ListingOrder),
                LAMBDA it :
                    /\ \/ /\ it.caught = "none"
                          /\ ~Exists(fs, MkdirTarget(text))
                          /\ it.m.fs = fs @@ (MkdirTarget(text) :> "dir")
                          /\ it.m.status = <<"created">> \o strip(text)
                       \/ /\ it.caught # "none"
                          /\ it.m.fs = fs
                          /\ it.m.status = <<"error", it.caught>>
                    /\ (~Exists(fs, MkdirTarget(text)) /\ IsDir(fs, Parent(MkdirTarget(text))))
                          => it.caught = "none"
                    /\ Exists(fs, MkdirTarget(text)) => it.caught = "FileExistsError"
                    /\ ~Exists(fs, Parent(MkdirTarget(text))) => it.caught = "FileNotFoundError")

\* the name B/c was typed in a pane showing the root: /B/c was created in the
\* existing directory /B
W_C14_Created ==
    /\ key = "F7" /\ status = <<"created", "B", "/", "c">> /\ exc = "none" /\ pc = "loop"
    /\ fs = InitFs @@ (<<"B", "c">> :> "dir")

(* ---- C15 ---- *)

\* the paths one name below a path of S that are not on disk
MissingUnder(S) == {Append(d, n) : d \in S, n \in Names} \ DOMAIN fs

\* entries that are no longer on disk: gone from a directory that is still
\* there, or gone together with their directory
GoneEntries ==
    MissingUnder({d \in DOMAIN fs : IsDir(fs, d)})
    \cup MissingUnder(MissingUnder({d \in DOMAIN fs : IsDir(fs, d)}))

\* C15: a delete event on an entry other than the sentinel raises nothing,
\* removes the entry with its whole subtree and leaves every other path as it
\* was; and in every state where the loop waits for a key, delete_entry on an
\* entry that is no longer on disk raises nothing, changes nothing on disk
\* and reports the entry deleted.
C15_DeleteFrame ==
    /\ [][(pc = "loop" /\ key' = "F8" /\ panes[active].cursor >= 1) =>
             /\ exc' = "none"
             /\ status' = <<"deleted", Name(Selected)>>
             /\ fs' = Restrict(fs, DOMAIN fs \ Subtree(fs, Selected))]_vars
    /\ [](pc = "loop" =>
             \A p \in GoneEntries :
                 Let(delete_entry(Current, p),
                     LAMBDA h : /\ h.exc = "none"
                                /\ h.m.fs = fs
                                /\ h.m.status = <<"deleted", Name(p)>>))

\* the directory /a/c was deleted with the file in it; the rest of the disk
\* is as it was
W_C15_TreeDeleted ==
    /\ key = "F8" /\ status = <<"deleted", "c">> /\ exc = "none" /\ pc = "loop"
    /\ fs = Restrict(InitFs, DOMAIN InitFs \ {<<"a", "c">>, <<"a", "c", "B">>})

(* ---- the task tracker (src/app.py) ---- *)

\* the texts of the tasks
TaskTexts == {"x", "y"}

\* the ids found in the file the tracker starts from
InitIds == {-2, 1, 3}

\* max((task.id for task in tasks), default=0)
MaxId(ts) ==
    IF ts = <<>> THEN 0
    ELSE CHOOSE x \in {ts[i].id : i \in DOMAIN ts} : \A i \in DOMAIN ts : ts[i].id <= x

\* add_task with the bug of numbering by the length of the list
add_task_by_count(ts, text) ==
    Let([id |-> Len(ts) + 1, text |-> text, done |-> FALSE],
        LAMBDA task : [tasks |-> Append(ts, task), ret |-> task])

\* add_task(tasks, text): the list after the call and the task returned
add_task(ts, text) ==
    Let([id |-> MaxId(ts) + 1, text |-> text, done |-> FALSE],
        LAMBDA task : [tasks |-> Append(ts, task), ret |-> task])

\* mark_done(tasks, task_id): the first task with that id is marked and
\* returned; "None" when there is none
mark_done(ts, task_id) ==
    LET hits == {i \in DOMAIN ts : ts[i].id = task_id}
    IN  IF hits = {} THEN [tasks |-> ts, ret |-> "None"]
        ELSE LET first == CHOOSE i \in hits : \A j \in hits : i <= j
             IN  [tasks |-> [ts EXCEPT ![first].done = TRUE],
                  ret   |-> [ts[first] EXCEPT !.done = TRUE]]

\* the lists of at most two tasks with pairwise distinct ids
InitTaskLists ==
    {<<>>}
    \cup {<<[id |-> i, text |-> "x", done |-> d]>> : i \in InitIds, d \in BOOLEAN}
    \cup {<<[id |-> i, text |-> "x", done |-> d], [id |-> j, text |-> "y", done |-> e]>> :
            i \in InitIds, j \in InitIds, d \in BOOLEAN, e \in BOOLEAN}

\* load_tasks: the list the tracker starts from
TasksInit ==
    /\ fs = InitFs
    /\ panes = [i \in {0, 1} |-> [path |-> Root, cursor |-> 0, entries |-> <<>>]]
    /\ active = 0
    /\ status = <<"help">>
    /\ pc = "init"
    /\ key = "none"
    /\ exc = "none"
    /\ nevents = 0
    /\ tasks \in {l \in InitTaskLists : \A i, j \in DOMAIN l : l[i].id = l[j].id => i = j}

\* main, command add
AddTask ==
    /\ Len(tasks) < MaxTasks
    /\ \E text \in TaskTexts : tasks' = add_task(tasks, text).tasks
    /\ key' = "add"
    /\ UNCHANGED <<fs, panes, active, status, pc, exc, nevents>>

\* main, command done
MarkDone ==
    /\ \E task_id \in {tasks[i].id : i \in DOMAIN tasks} \cup {0} :
          tasks' = mark_done(tasks, task_id).tasks
    /\ key' = "done"
    /\ UNCHANGED <<fs, panes, active, status, pc, exc, nevents>>

TasksNext == AddTask \/ MarkDone

SpecTasks == TasksInit /\ [][TasksNext]_vars

(* ---- C16 ---- *)

\* C16: starting from a list with pairwise distinct ids, the ids stay
\* pairwise distinct; a call of add_task appends, to the list left as it
\* was, one task that is not done and whose id is 1 for an empty list and
\* otherwise one more than an id of the list and more than all of them; a
\* call of mark_done changes no id.
C16_TaskIdsDistinct ==
    /\ [](\A i, j \in DOMAIN tasks : tasks[i].id = tasks[j].id => i = j)
    /\ [][key' = "add" =>
             /\ Len(tasks') = Len(tasks) + 1
             /\ SubSeq(tasks', 1, Len(tasks)) = tasks
             /\ tasks'[Len(tasks')].done = FALSE
             /\ tasks = <<>> => tasks'[Len(tasks')].id = 1
             /\ tasks # <<>> =>
                   /\ \E i \in DOMAIN tasks : tasks'[Len(tasks')].id = tasks[i].id + 1
                   /\ \A i \in DOMAIN tasks : tasks[i].id < tasks'[Len(tasks')].id]_vars
    /\ [][key' = "done" =>
             /\ Len(tasks') = Len(tasks)
             /\ \A i \in DOMAIN tasks : tasks'[i].id = tasks[i].id]_vars

\* a task was added to a list holding the ids 3 and 1: it got the id 4
W_C16_Added ==
    /\ key = "add" /\ Len(tasks) = 3
    /\ tasks[1].id = 3 /\ tasks[2].id = 1 /\ tasks[3].id = 4 /\ ~tasks[3].done

(* ---- C17 ---- *)

\* C17: the active index is 0 or 1; a step that changes it handles the Tab
\* key; a Tab event makes it 1 - active and leaves both panes' path and
\* cursor and the filesystem as they were (so that a second Tab event gives
\* the pane that was active: 1 - (1 - active) = active).
C17_SwitchPane ==
    /\ [](active \in {0, 1})
    /\ [][active' # active => (pc = "loop" /\ key' = "Tab")]_vars
    /\ [][(pc = "loop" /\ key' = "Tab") =>
             /\ active' = 1 - active
             /\ \A i \in {0, 1} : /\ panes'[i].path = panes[i].path
                                  /\ panes'[i].cursor = panes[i].cursor
             /\ fs' = fs]_vars

\* Tab was pressed twice after the cursor was moved down in pane 0: pane 0
\* is active again, its cursor still on index 1
W_C17_SwitchedBack ==
    /\ key = "Tab" /\ nevents = 3 /\ active = 0 /\ pc = "loop"
    /\ panes[0].cursor = 1 /\ panes[1].cursor = 0 /\ status = <<"help">>

(* ---- C18 ---- *)

\* the keys of the navigation events other than Enter
NavigationKeys == {"Tab", "Up", "Down", "r", "q"}

\* C18: a step that handles a navigation event (Tab, Up, Down, the refresh
\* key, the quit key, or Enter on a selected directory) leaves the
\* filesystem as it was; hence after any sequence of such events the
\* filesystem is the initial one.
C18_NavigationKeepsDisk ==
    [][(pc = "loop" /\ (key' \in NavigationKeys \/ (key' = "Enter" /\ IsDir(fs, Selected))))
          => fs' = fs]_vars

\* the refresh key was handled as the third event, in a pane showing /a/c
\* with the other pane at the root: the disk is the initial one
W_C18_Navigated ==
    /\ nevents = 3 /\ key = "r" /\ status = <<"refreshed">> /\ pc = "loop"
    /\ panes[active].path = <<"a", "c">> /\ panes[active].cursor = 0
    /\ panes[active].entries = <<<<"a">>, <<"a", "c", "B">>>>
    /\ panes[other_index(active)].path = Root
    /\ fs = InitFs

(* ---- C19 ---- *)

\* C19: when both panes show the same directory, a copy or move event on a
\* selected entry other than the sentinel has the selected entry itself as
\* its target: it raises FileExistsError, leaves the filesystem as it was
\* and sets the error status.
C19_SameDirectoryRefused ==
    [][(pc = "loop" /\ key' \in {"F5", "F6"} /\ panes[0].path = panes[1].path
          /\ panes[active].cursor >= 1) =>
             /\ CopyTarget = Selected
             /\ exc' = "FileExistsError"
             /\ status' = <<"error", "FileExistsError">>
             /\ fs' = fs]_vars

\* with both panes in /a and the cursor on the directory c, a move was
\* refused
W_C19_SameDirMove ==
    /\ key = "F6" /\ exc = "FileExistsError" /\ status = <<"error", "FileExistsError">>
    /\ panes[0].path = <<"a">> /\ panes[1].path = <<"a">>
    /\ panes[active].cursor = 1 /\ nevents = 2 /\ pc = "loop"
    /\ fs = InitFs

(* ---- FileManager.draw_pane ---- *)

\* the heights stdscr.getmaxyx() can report
Heights == 1..MaxHeight

\* max_lines = h - 2: the rows left for entries
max_lines(h) == h - 2

\* draw_start with the bug of scrolling one row less
draw_start_late(pane, h) ==
    IF pane.cursor >= max_lines(h) THEN pane.cursor - max_lines(h) ELSE 0

\* the index of the first entry drawn (start)
draw_start(pane, h) ==
    IF pane.cursor >= max_lines(h) THEN pane.cursor - max_lines(h) + 1 ELSE 0

\* seq[from : to] of Python for 0 <= from and 0 <= to
Slice(seq, from, to) == SubSeq(seq, from + 1, Min(to, Len(seq)))

\* pane.entries[start : start + max_lines]
visible(pane, h) ==
    Slice(pane.entries, draw_start(pane, h), draw_start(pane, h) + max_lines(h))

\* draw_pane: the entry rows written to the screen, each with its screen
\* line y, the index idx of its entry, its text and whether it is shown in
\* reverse video
draw_pane(f, pane, h, isActive) ==
    [i \in 1..Len(visible(pane, h)) |->
        [y       |-> i,
         idx     |-> (i - 1) + draw_start(pane, h),
         text    |-> format_entry(f, visible(pane, h)[i]),
         reverse |-> isActive /\ (i - 1) + draw_start(pane, h) = pane.cursor]]

(* ---- C20 ---- *)

\* C20: whenever the panes are drawn (the loop is about to wait for a key)
\* on a screen with at least one row for entries, the first index drawn is
\* cursor - rows + 1 when that is positive and 0 otherwise, the cursor lies
\* in the window (start <= cursor < start + rows), and the row of the
\* selected entry is drawn, with the entry's text, in reverse video exactly
\* in the active pane.
C20_ScrollWindow ==
    pc = "loop" =>
        \A i \in {0, 1}, h \in Heights :
            max_lines(h) >= 1 =>
                /\ draw_start(panes[i], h) =
                      (IF panes[i].cursor - max_lines(h) + 1 > 0
                       THEN panes[i].cursor - max_lines(h) + 1 ELSE 0)
                /\ draw_start(panes[i], h) <= panes[i].cursor
                /\ panes[i].cursor < draw_start(panes[i], h) + max_lines(h)
                /\ Len(draw_pane(fs, panes[i], h, i = active)) =< max_lines(h)
                /\ \E r \in DOMAIN draw_pane(fs, panes[i], h, i = active) :
                      /\ draw_pane(fs, panes[i], h, i = active)[r].idx = panes[i].cursor
                      /\ draw_pane(fs, panes[i], h, i = active)[r].text
                            = format_entry(fs, selected(panes[i]))
                      /\ draw_pane(fs, panes[i], h, i = active)[r].reverse = (i = active)

\* the cursor is on the fourth entry of /a and the screen has two rows for
\* entries: the window starts at index 2
W_C20_Scrolled ==
    /\ pc = "loop" /\ panes[active].cursor = 3 /\ Len(panes[active].entries) = 4
    /\ draw_start(panes[active], 4) = 2
    /\ Len(draw_pane(fs, panes[active], 4, TRUE)) = 2
    /\ draw_pane(fs, panes[active], 4, TRUE)[2].reverse

====
